---------------------------- MODULE Spec2Model ----------------------------
(***************************************************************************)
(* Samsung Wireless Audio integration: the group coordinator               *)
(* (wam_coordinator.py), the group view of a media player                  *)
(* (media_player.py, group_members) and the connection handling of a       *)
(* device (wam_device.py, wam_entity.py).                                  *)
(*                                                                         *)
(* Entity ids are the numbers in Players; the speaker of entity p has the  *)
(* address Ip(p).  Python's None is NoPlayer / NoIp for scalars and None   *)
(* for a list.  The dict _media_players is the sequence of its keys in     *)
(* insertion order, which is the order Python iterates it in.              *)
(***************************************************************************)
EXTENDS Integers, Sequences, FiniteSets, TLC

\* ------------------------------------------------------------------ bounds
Players == {1, 2, 3}
MaxMembers == 2      \* longest media_players list of one add request
MaxRequests == 2     \* accepted requests in one behaviour
MaxEnv == 1          \* registry / connection / push events in one behaviour
MaxAttempts == 7     \* failed attempts of one reconnection loop
MaxChecks == 2       \* check_connection coroutines alive at one time
MaxAge == 62         \* minutes since last_seen that the clock is followed for

NoPlayer == 0
NoIp == NoPlayer
None == <<0>>        \* Python None where a list is expected

VARIABLES
    media_players,       \* SamsungWamCoordinator._media_players (keys, in order)
    grouping_master,     \* _grouping_master
    speakers_to_add,     \* _grouping_speakers_to_add
    speakers_to_remove,  \* _grouping_speakers_to_remove
    call_later_cancel,   \* _grouping_call_later_cancel is not None
    in_progress,         \* _grouping_in_progress
    timers,              \* callbacks scheduled with async_call_later, not yet run
    commits,             \* running async_group_media_players coroutines
    is_master,           \* speaker.attribute.is_master, per player
    is_slave,            \* speaker.attribute.is_slave
    master_ip,           \* speaker.attribute.master_ip
    is_connected,        \* speaker.is_connected (the entity's available)
    last_call,           \* the last physical group() call and what became of it
    written,             \* the players the current step wrote to the state machine
    episode,             \* bookkeeping of the current grouping episode
    n_req,               \* accepted requests so far
    n_env,               \* environment events so far
    update_callbacks,    \* SamsungWamDevice._update_callbacks
    checking_connection, \* _checking_connection
    reconnecting,        \* _reconnecting
    speaker_connected,   \* speaker.is_connected of the device
    last_seen,           \* speaker.attribute.last_seen, against the clock
    checks,              \* running check_connection coroutines of the device
    unloaded,            \* async_unload_entry has run for the device's entry
    sent                 \* what the current step sent: notifications, calls

coord == <<grouping_master, speakers_to_add, speakers_to_remove,
           call_later_cancel, in_progress>>
pending == <<grouping_master, speakers_to_add, speakers_to_remove,
             call_later_cancel>>
attrs == <<is_master, is_slave, master_ip>>
device == <<update_callbacks, checking_connection, reconnecting,
            speaker_connected, last_seen, checks, unloaded, sent>>
coordinator == <<media_players, grouping_master, speakers_to_add,
                 speakers_to_remove, call_later_cancel, in_progress, timers,
                 commits, is_master, is_slave, master_ip, is_connected,
                 last_call, written, episode, n_req, n_env>>
vars == <<media_players, grouping_master, speakers_to_add, speakers_to_remove,
          call_later_cancel, in_progress, timers, commits, is_master, is_slave,
          master_ip, is_connected, last_call, written, episode, n_req, n_env,
          update_callbacks, checking_connection, reconnecting,
          speaker_connected, last_seen, checks, unloaded, sent>>

\* ----------------------------------------------------------------- helpers
Range(s) == {s[i] : i \in 1..Len(s)}

SeqsUpTo(S, n) == UNION {[1..k -> S] : k \in 0..n}

Ip(p) == p

\* speaker.attribute.is_grouped of pywam: the speaker is in a group
is_grouped(p) == is_master[p] \/ is_slave[p]

\* ------------------------------------------------------------- coordinator
Registered(e) == e \in Range(media_players)

\* add_media_player that adds one more entry for a key that exists
add_media_player_again(reg, e) ==
    Append(reg, e)

\* dict assignment: a new key goes last, an existing key keeps its place
add_media_player(reg, e) ==
    IF e \in Range(reg) THEN reg ELSE Append(reg, e)

\* del dict[key]; the KeyError is caught and logged
delete_media_player(reg, e) ==
    SelectSeq(reg, LAMBDA x : x # e)

\* get_all_available_media_players: the registered players that are online,
\* in dictionary order
get_all_available_media_players ==
    SelectSeq(media_players, LAMBDA e : is_connected[e])

\* update_hass_states that writes the players that are offline as well
update_hass_states_all(reg) == Range(reg)

\* update_hass_states: the players whose state is written
update_hass_states(reg) ==
    {e \in Range(reg) : is_connected[e]}

\* ------------------------------------------------------------ group_members
\* SlaveLoop that puts the master behind the slaves found before it
RECURSIVE SlaveLoop_append(_, _, _)
SlaveLoop_append(self, todo, acc) ==
    IF todo = <<>> THEN acc
    ELSE LET e == Head(todo)
         IN IF Ip(e) = master_ip[self] \/ master_ip[e] = master_ip[self]
            THEN SlaveLoop_append(self, Tail(todo), Append(acc, e))
            ELSE SlaveLoop_append(self, Tail(todo), acc)

\* the loop of the slave branch: the master is put first, other slaves of the
\* same master are appended
RECURSIVE SlaveLoop(_, _, _)
SlaveLoop(self, todo, acc) ==
    IF todo = <<>> THEN acc
    ELSE LET e == Head(todo)
         IN IF Ip(e) = master_ip[self]
            THEN SlaveLoop(self, Tail(todo), <<e>> \o acc)
            ELSE IF master_ip[e] = master_ip[self]
                 THEN SlaveLoop(self, Tail(todo), Append(acc, e))
                 ELSE SlaveLoop(self, Tail(todo), acc)

\* MasterLoop that puts each slave in front of the ones found before
RECURSIVE MasterLoop_insert(_, _, _)
MasterLoop_insert(self, todo, acc) ==
    IF todo = <<>> THEN acc
    ELSE LET e == Head(todo)
         IN IF e # self /\ master_ip[e] = Ip(self)
            THEN MasterLoop_insert(self, Tail(todo), <<acc[1], e>> \o Tail(acc))
            ELSE MasterLoop_insert(self, Tail(todo), acc)

\* the loop of the master branch: the master itself is skipped
RECURSIVE MasterLoop(_, _, _)
MasterLoop(self, todo, acc) ==
    IF todo = <<>> THEN acc
    ELSE LET e == Head(todo)
         IN IF e = self
            THEN MasterLoop(self, Tail(todo), acc)
            ELSE IF master_ip[e] = Ip(self)
                 THEN MasterLoop(self, Tail(todo), Append(acc, e))
                 ELSE MasterLoop(self, Tail(todo), acc)

group_members(self) ==
    IF is_master[self]
    THEN MasterLoop(self, get_all_available_media_players, <<self>>)
    ELSE IF is_slave[self]
         THEN SlaveLoop(self, get_all_available_media_players, <<>>)
         ELSE None

\* --------------------------------------------------------------- validation
\* Each validation yields the exception it raises, or "none".

RECURSIVE ValidateSlaves(_, _)
ValidateSlaves(self, slaves) ==
    IF slaves = <<>> THEN "none"
    ELSE IF master_ip[Head(slaves)] # Ip(self)
         THEN "AttributeError"   \* player_slave.device.id on a str, in the log call
         ELSE ValidateSlaves(self, Tail(slaves))

validate_master(id) ==
    IF ~Registered(id) THEN "KeyError"
    ELSE IF is_slave[id] THEN "WamGroupError"
    ELSE IF group_members(id) = None
         THEN IF is_grouped(id) THEN "WamGroupError" ELSE "none"
         ELSE IF id # group_members(id)[1] THEN "WamGroupError"
              ELSE IF ~is_master[id] THEN "WamGroupError"
              ELSE ValidateSlaves(id, Tail(group_members(id)))

\* validate_one_to_add without the two checks for a slave of another group
validate_one_to_add_lenient(master_id, id) ==
    IF ~Registered(id) THEN "WamGroupError"
    ELSE IF ~is_connected[id] THEN "WamGroupError"
    ELSE IF is_master[id] THEN "WamGroupError"
    ELSE "none"

validate_one_to_add(master_id, id) ==
    IF ~Registered(id) THEN "WamGroupError"
    ELSE IF ~is_connected[id] THEN "WamGroupError"
    ELSE IF is_master[id] THEN "WamGroupError"
    ELSE IF /\ group_members(id) # None
            /\ \/ group_members(master_id) = None
               \/ id \notin Range(group_members(master_id))
         THEN "WamGroupError"
    ELSE IF is_slave[id] /\ master_ip[id] # Ip(master_id) THEN "WamGroupError"
    ELSE "none"

\* validate_media_players_to_add that leaves the loop after the first player
validate_media_players_to_add_first(master_id, ids) ==
    IF ids = <<>> THEN "none" ELSE validate_one_to_add(master_id, Head(ids))

RECURSIVE validate_media_players_to_add(_, _)
validate_media_players_to_add(master_id, ids) ==
    IF ids = <<>> THEN "none"
    ELSE LET r == validate_one_to_add(master_id, Head(ids))
         IN IF r # "none" THEN r
            ELSE validate_media_players_to_add(master_id, Tail(ids))

validate_media_player_to_remove(master_id, id) ==
    IF ~Registered(id) THEN "KeyError"
    ELSE IF ~is_slave[id] THEN "WamGroupError"
    ELSE IF Len(group_members(id)) = 0 THEN "WamGroupError"
    ELSE IF group_members(master_id) = None THEN "TypeError"   \* x not in None
    ELSE IF id \notin Range(group_members(master_id)) THEN "WamGroupError"
    ELSE "none"

\* ------------------------------------------------------- requests (callers)
\* What add_speakers_to_group raises when no grouping is in progress
AddRaises(master_id, ids) ==
    IF validate_master(master_id) # "none" THEN validate_master(master_id)
    ELSE IF validate_media_players_to_add(master_id, ids) # "none"
         THEN validate_media_players_to_add(master_id, ids)
    ELSE IF grouping_master # NoPlayer /\ grouping_master # master_id
         THEN "WamGroupError"
    ELSE "none"

\* What remove_speaker_from_group raises when no grouping is in progress
RemoveRaises(master_id, id) ==
    IF validate_master(master_id) # "none" THEN validate_master(master_id)
    ELSE IF validate_media_player_to_remove(master_id, id) # "none"
         THEN validate_media_player_to_remove(master_id, id)
    ELSE IF grouping_master # NoPlayer /\ grouping_master # master_id
         THEN "WamGroupError"
    ELSE "none"

\* AlreadyInProgress without the check
AlreadyInProgress_never == FALSE

\* the early return of both requests
AlreadyInProgress == in_progress

\* ArmTimer that schedules a callback for every request
ArmTimer_always ==
    call_later_cancel' = TRUE /\ timers' = timers + 1

\* "Perform the grouping 1 second from now": nothing when a handle is stored
ArmTimer ==
    IF call_later_cancel
    THEN UNCHANGED <<call_later_cancel, timers>>
    ELSE call_later_cancel' = TRUE /\ timers' = timers + 1

\* ExtendToAdd that replaces the list instead of extending it
ExtendToAdd_replace(to_add, ids) == ids

\* self._grouping_speakers_to_add.extend(media_players)
ExtendToAdd(to_add, ids) == to_add \o ids

\* the exception add_speakers_to_group ends with ("none": it returns)
add_raises(master_id, ids) ==
    IF AlreadyInProgress THEN "none" ELSE AddRaises(master_id, ids)

\* add_accepted without the early return of a grouping in progress
add_accepted_unguarded(master_id, ids) ==
    AddRaises(master_id, ids) = "none"

\* the call gets past its checks and changes the pending operation
add_accepted(master_id, ids) ==
    ~AlreadyInProgress /\ AddRaises(master_id, ids) = "none"

\* add_speakers_to_group that stores the master before the members are
\* validated
add_speakers_to_group_early(master_id, ids) ==
    IF add_accepted(master_id, ids)
    THEN /\ n_req < MaxRequests
         /\ grouping_master' = master_id
         /\ speakers_to_add' = ExtendToAdd(speakers_to_add, ids)
         /\ ArmTimer
         /\ n_req' = n_req + 1
         /\ episode' = [episode EXCEPT !.adds = @ + 1,
                                       !.added = @ \cup Range(ids)]
         /\ written' = {}
         /\ UNCHANGED <<device, media_players, speakers_to_remove, in_progress, commits,
                        attrs, is_connected, last_call, n_env>>
    ELSE IF /\ ~AlreadyInProgress
            /\ validate_master(master_id) = "none"
            /\ grouping_master = NoPlayer
         THEN /\ n_req < MaxRequests
              /\ grouping_master' = master_id
              /\ n_req' = n_req + 1
              /\ written' = {}
              /\ UNCHANGED <<device, media_players, speakers_to_add,
                             speakers_to_remove, call_later_cancel, in_progress,
                             timers, commits, attrs, is_connected, last_call,
                             episode, n_env>>
         ELSE UNCHANGED vars

add_speakers_to_group(master_id, ids) ==
    IF add_accepted(master_id, ids)
    THEN /\ n_req < MaxRequests
         /\ grouping_master' = master_id
         /\ speakers_to_add' = ExtendToAdd(speakers_to_add, ids)
         /\ ArmTimer
         /\ n_req' = n_req + 1
         /\ episode' = [episode EXCEPT !.adds = @ + 1,
                                       !.added = @ \cup Range(ids)]
         /\ written' = {}
         /\ UNCHANGED <<device, media_players, speakers_to_remove, in_progress, commits,
                        attrs, is_connected, last_call, n_env>>
    ELSE UNCHANGED vars

remove_raises(master_id, id) ==
    IF AlreadyInProgress THEN "none" ELSE RemoveRaises(master_id, id)

remove_accepted(master_id, id) ==
    ~AlreadyInProgress /\ RemoveRaises(master_id, id) = "none"

remove_speaker_from_group(master_id, id) ==
    IF remove_accepted(master_id, id)
    THEN /\ n_req < MaxRequests
         /\ grouping_master' = master_id
         /\ speakers_to_remove' = Append(speakers_to_remove, id)
         /\ ArmTimer
         /\ n_req' = n_req + 1
         /\ episode' = [episode EXCEPT !.removes = @ + 1]
         /\ written' = {}
         /\ UNCHANGED <<device, media_players, speakers_to_add, in_progress, commits,
                        attrs, is_connected, last_call, n_env>>
    ELSE UNCHANGED vars

\* ------------------------------------------------------------------ commit
\* slaves_before of _group_wam_speakers
SlavesBefore(master_id) ==
    IF group_members(master_id) # None
    THEN Tail(group_members(master_id))
    ELSE <<>>

\* SlavesAfter without the difference_update
SlavesAfter_keep(before, to_remove, to_add) ==
    Range(before) \cup Range(to_add)

\* SlavesAfter with update and difference_update in the other order
SlavesAfter_swapped(before, to_remove, to_add) ==
    (Range(before) \cup Range(to_add)) \ Range(to_remove)

\* slaves_after of _group_wam_speakers
SlavesAfter(before, to_remove, to_add) ==
    (Range(before) \ Range(to_remove)) \cup Range(to_add)

\* _group_wam_speakers up to its await: the call it is about to make, or the
\* exception of a get_media_player on an id that is not registered
group_wam_speakers ==
    IF ~Registered(grouping_master)
    THEN [exc |-> "KeyError", master |-> grouping_master,
          before |-> <<>>, after |-> {}]
    ELSE LET before == SlavesBefore(grouping_master)
             after == SlavesAfter(before, speakers_to_remove, speakers_to_add)
         IN IF \E s \in Range(before) \cup after : ~Registered(s)
            THEN [exc |-> "KeyError", master |-> grouping_master,
                  before |-> before, after |-> after]
            ELSE [exc |-> "none", master |-> grouping_master,
                  before |-> before, after |-> after]

\* no physical call is waiting for its outcome or for the speakers' reports
NoCall == [state |-> "none", master |-> NoPlayer, before |-> <<>>, after |-> {},
           to_add |-> <<>>, to_remove |-> <<>>]

\* nothing was requested since the pending operation was last reset
NoEpisode == [adds |-> 0, removes |-> 0, added |-> {}, calls |-> 0, fires |-> 0]

\* the guard at the head of async_group_media_players
CommitRefused == in_progress

\* The settle timer fires: async_group_media_players up to its first await,
\* which is the physical group() call, or the sleep of the finally clause
\* when _group_wam_speakers raised before the call.
TimerFires ==
    /\ timers > 0
    /\ timers' = timers - 1
    /\ IF CommitRefused
       THEN UNCHANGED <<in_progress, commits, last_call, episode>>
       ELSE LET g == group_wam_speakers
            IN /\ in_progress' = TRUE
               /\ commits' = Append(commits,
                      [pc |-> IF g.exc = "none" THEN "calling" ELSE "sleeping",
                       exc |-> g.exc, master |-> g.master,
                       before |-> g.before, after |-> g.after])
               /\ IF g.exc = "none"
                  THEN /\ last_call' = [state |-> "inflight", master |-> g.master,
                                        before |-> g.before, after |-> g.after,
                                        to_add |-> speakers_to_add,
                                        to_remove |-> speakers_to_remove]
                       /\ episode' = [episode EXCEPT !.calls = @ + 1, !.fires = @ + 1]
                  ELSE /\ UNCHANGED last_call
                       /\ episode' = [episode EXCEPT !.fires = @ + 1]
    /\ written' = {}
    /\ UNCHANGED <<device, media_players, pending, attrs, is_connected, n_req, n_env>>

\* what master_speaker.group() can do: return, raise a PywamError, or raise
\* something else (a ConnectionError of the transport)
GroupOutcomes == {"none", "PywamError", "ConnectionError"}

\* GroupResolves that schedules the commit again when the call failed
GroupResolves_retry(i, outcome) ==
    /\ i \in 1..Len(commits)
    /\ commits[i].pc = "calling"
    /\ commits' = [commits EXCEPT ![i].pc = "sleeping", ![i].exc = outcome]
    /\ last_call' = IF outcome = "none"
                    THEN [last_call EXCEPT !.state = "ok"]
                    ELSE NoCall
    /\ timers' = IF outcome = "none" THEN timers ELSE timers + 1
    /\ written' = {}
    /\ UNCHANGED <<device, media_players, coord, attrs, is_connected, episode,
                   n_req, n_env>>

\* GroupResolves that has the device check its connection when the call failed
\* with a ConnectionError
GroupResolves_checks(i, outcome) ==
    /\ i \in 1..Len(commits)
    /\ commits[i].pc = "calling"
    /\ commits' = [commits EXCEPT ![i].pc = "sleeping", ![i].exc = outcome]
    /\ last_call' = IF outcome = "none"
                    THEN [last_call EXCEPT !.state = "ok"]
                    ELSE NoCall
    /\ written' = {}
    /\ checking_connection' = (checking_connection \/ outcome = "ConnectionError")
    /\ UNCHANGED <<update_callbacks, reconnecting, speaker_connected,
                   last_seen, checks, unloaded, sent>>
    /\ UNCHANGED <<media_players, coord, timers, attrs, is_connected, episode,
                   n_req, n_env>>

\* The physical call of commit i resolves; the finally clause starts its sleep.
GroupResolves(i, outcome) ==
    /\ i \in 1..Len(commits)
    /\ commits[i].pc = "calling"
    /\ commits' = [commits EXCEPT ![i].pc = "sleeping", ![i].exc = outcome]
    /\ last_call' = IF outcome = "none"
                    THEN [last_call EXCEPT !.state = "ok"]
                    ELSE NoCall
    /\ written' = {}
    /\ UNCHANGED <<device, media_players, coord, timers, attrs, is_connected, episode,
                   n_req, n_env>>

\* the exception async_group_media_players ends with
CommitRaises(exc) ==
    IF exc = "PywamError" THEN "WamGroupError" ELSE exc

RemoveAt(s, i) == SubSeq(s, 1, i - 1) \o SubSeq(s, i + 1, Len(s))

\* The sleep of the finally clause is over: reset, update all media players.
SettleDone(i) ==
    /\ i \in 1..Len(commits)
    /\ commits[i].pc = "sleeping"
    /\ grouping_master' = NoPlayer
    /\ speakers_to_add' = <<>>
    /\ speakers_to_remove' = <<>>
    /\ call_later_cancel' = FALSE
    /\ in_progress' = FALSE
    /\ commits' = RemoveAt(commits, i)
    /\ episode' = NoEpisode
    /\ written' = update_hass_states(media_players)
    /\ UNCHANGED <<device, media_players, timers, attrs, is_connected, last_call,
                   n_req, n_env>>

\* ------------------------------------------------------------- environment
\* the grouping attributes one speaker can report
Roles(p) ==
    {[m |-> FALSE, s |-> FALSE, ip |-> NoIp],
     [m |-> TRUE, s |-> FALSE, ip |-> NoIp],
     [m |-> TRUE, s |-> FALSE, ip |-> Ip(p)]}
    \cup {[m |-> FALSE, s |-> TRUE, ip |-> Ip(q)] : q \in Players \ {p}}

\* the topologies a set of speakers is in when left alone: every slave
\* names a master, every master has a slave
Topologies ==
    {t \in [Players -> UNION {Roles(p) : p \in Players}] :
        \A p \in Players :
            /\ t[p] \in Roles(p)
            /\ t[p].s => t[t[p].ip].m
            /\ t[p].m => t[p].ip = NoIp /\ \E q \in Players : t[q].s /\ t[q].ip = Ip(p)}

\* wam_async_added_to_hass_extra: the entity registers and all are updated
EntityAdded(e) ==
    /\ n_env < MaxEnv
    /\ n_env' = n_env + 1
    /\ media_players' = add_media_player(media_players, e)
    /\ written' = update_hass_states(media_players')
    /\ UNCHANGED <<device, coord, timers, commits, attrs, is_connected, last_call,
                   episode, n_req>>

\* wam_async_will_remove_from_hass_extra: the entity unregisters
EntityRemoved(e) ==
    /\ n_env < MaxEnv
    /\ n_env' = n_env + 1
    /\ media_players' = delete_media_player(media_players, e)
    /\ written' = update_hass_states(media_players')
    /\ UNCHANGED <<device, coord, timers, commits, attrs, is_connected, last_call,
                   episode, n_req>>

\* the transport of a speaker goes down or comes back (speaker.is_connected)
ConnectionChange(p) ==
    /\ n_env < MaxEnv
    /\ n_env' = n_env + 1
    /\ is_connected' = [is_connected EXCEPT ![p] = ~@]
    /\ written' = {}
    /\ UNCHANGED <<device, media_players, coord, timers, commits, attrs, last_call,
                   episode, n_req>>

\* pywam_subscriber: a speaker reports new grouping attributes, and every
\* available media player is updated
PushEvent(p, r) ==
    /\ n_env < MaxEnv
    /\ n_env' = n_env + 1
    /\ r \in Roles(p)
    /\ <<is_master[p], is_slave[p], master_ip[p]>> # <<r.m, r.s, r.ip>>
    /\ is_master' = [is_master EXCEPT ![p] = r.m]
    /\ is_slave' = [is_slave EXCEPT ![p] = r.s]
    /\ master_ip' = [master_ip EXCEPT ![p] = r.ip]
    /\ written' = update_hass_states(media_players)
    /\ UNCHANGED <<device, media_players, coord, timers, commits, is_connected,
                   last_call, episode, n_req>>

\* The speakers of the last successful group() call report the topology the
\* call asked for: the slaves after name the master, the slaves dropped and a
\* master left without slaves are ungrouped.
SpeakersReport ==
    /\ last_call.state = "ok"
    /\ LET m == last_call.master
           after == last_call.after \ {m}
           dropped == Range(last_call.before) \ last_call.after
       IN /\ is_master' = [p \in Players |->
                IF p = m THEN after # {}
                ELSE IF p \in after \cup dropped THEN FALSE ELSE is_master[p]]
          /\ is_slave' = [p \in Players |->
                IF p = m THEN FALSE
                ELSE IF p \in after THEN TRUE
                ELSE IF p \in dropped THEN FALSE ELSE is_slave[p]]
          /\ master_ip' = [p \in Players |->
                IF p = m THEN NoIp
                ELSE IF p \in after THEN Ip(m)
                ELSE IF p \in dropped THEN NoIp ELSE master_ip[p]]
    /\ last_call' = NoCall
    /\ written' = update_hass_states(media_players)
    /\ UNCHANGED <<device, media_players, coord, timers, commits, is_connected,
                   episode, n_req, n_env>>

\* ------------------------------------------------------------------ device
\* One SamsungWamDevice (wam_device.py) and the callers of its connection
\* check: the time interval listener and the wrapper of the entity commands
\* (wam_entity.py).  The pywam speaker is the environment: each awaited call
\* resolves by returning or by raising.

\* the entities that can subscribe to the device
Callbacks == {1, 2}

NoTask == [pc |-> "done", reconnection_attempts |-> 0, wait_time |-> 0]

\* nothing was sent by the step
NothingSent == [kind |-> "none", forced |-> [c \in Callbacks |-> 0], hass |-> 0,
                flag |-> FALSE, connect |-> FALSE, probe |-> FALSE,
                attempt |-> "none", by |-> "none", timeout |-> FALSE,
                raised |-> "none", called |-> [c \in Callbacks |-> 0],
                delta |-> {}, probe_exc |-> "none", order |-> <<>>]

\* PING_INTERVAL = 60, in minutes
PING_INTERVAL == 60

\* speaker.attribute.last_seen is None
NoTime == -1

Min(a, b) == IF a < b THEN a ELSE b

\* wait_time without the cap on the exponent
wait_time_uncapped(reconnection_attempts) ==
    2 ^ reconnection_attempts * 10

\* wait_time = 2 ** (min(reconnection_attempts, 6)) * 10
wait_time(reconnection_attempts) ==
    2 ^ Min(reconnection_attempts, 6) * 10

\* update_all_entity_states that calls every entity, subscribed or not
update_all_entity_states_every(callbacks) ==
    [c \in Callbacks |-> 1]

\* update_all_entity_states: how often each callback is called with
\* force_update=True
update_all_entity_states(callbacks) ==
    [c \in Callbacks |-> IF c \in callbacks THEN 1 ELSE 0]

\* the positions of _reconnect_until_connected
LoopPcs == {"disconnecting", "connecting", "updating", "sleeping"}

\* the check_connection coroutines that are inside _reconnect_until_connected
Loops == {i \in 1..Len(checks) : checks[i].pc \in LoopPcs}

\* check_connection that starts a probe whether or not one is running
check_connection_unguarded(caller) ==
    /\ Len(checks) < MaxChecks
    /\ checking_connection' = TRUE
    /\ checks' = Append(checks, [NoTask EXCEPT !.pc = "probing"])
    /\ sent' = [caller EXCEPT !.kind = "check", !.probe = TRUE]
    /\ UNCHANGED <<update_callbacks, reconnecting, speaker_connected,
                   last_seen>>

\* check_connection up to its first await, the probe get_volume(); caller is
\* what the calling handler has sent so far
check_connection(caller) ==
    IF checking_connection
    THEN /\ sent' = [caller EXCEPT !.kind = "ignored"]
         /\ UNCHANGED <<update_callbacks, checking_connection, reconnecting,
                        speaker_connected, last_seen, checks>>
    ELSE /\ Len(checks) < MaxChecks
         /\ checking_connection' = TRUE
         /\ checks' = Append(checks, [NoTask EXCEPT !.pc = "probing"])
         /\ sent' = [caller EXCEPT !.kind = "check", !.probe = TRUE]
         /\ UNCHANGED <<update_callbacks, reconnecting, speaker_connected,
                        last_seen>>

\* what a command of an entity can raise
CommandErrors == {"ConnectionError", "ApiCallTimeoutError", "Exception"}

\* inner_wrapper that checks the connection on every timeout
inner_wrapper_checks_timeouts(err, timeout) ==
    \/ err = "ConnectionError"
    \/ err = "ApiCallTimeoutError"

\* inner_wrapper: the except clauses that call device.check_connection()
inner_wrapper_checks(err, timeout) ==
    \/ err = "ConnectionError"
    \/ err = "ApiCallTimeoutError" /\ timeout

\* inner_wrapper: what the call of the decorated command raises to its caller
\* when the command raised err; every except clause ends without a raise and
\* the wrapper returns None
inner_wrapper_raises(err, timeout) == "none"

\* async_check_connection(timeout): the wrapped command raised err
CommandFails(err, timeout) ==
    /\ ~unloaded
    /\ LET caller == [NothingSent EXCEPT
                          !.by = err, !.timeout = timeout,
                          !.raised = inner_wrapper_raises(err, timeout)]
       IN  IF inner_wrapper_checks(err, timeout)
           THEN check_connection(caller)
           ELSE /\ sent' = [caller EXCEPT !.kind = "logged"]
                /\ UNCHANGED <<update_callbacks, checking_connection,
                               reconnecting, speaker_connected, last_seen,
                               checks>>
    /\ UNCHANGED unloaded
    /\ UNCHANGED coordinator

\* the skip test with the threshold itself counted as seen
seen_recently_inclusive(time_since_last_seen) ==
    time_since_last_seen <= PING_INTERVAL + 1

\* time_since_last_seen < skip_time, skip_time = PING_INTERVAL + 1 minutes
seen_recently(time_since_last_seen) ==
    time_since_last_seen < PING_INTERVAL + 1

\* periodic_connection_check: the listener of the time interval, which the
\* unload of the entry cancels
periodic_connection_check ==
    /\ ~unloaded
    /\ LET caller == [NothingSent EXCEPT !.by = "tick"]
       IN  IF \/ checking_connection
              \/ reconnecting
              \/ last_seen = NoTime
              \/ seen_recently(last_seen)
           THEN /\ sent' = [caller EXCEPT !.kind = "skipped"]
                /\ UNCHANGED <<update_callbacks, checking_connection,
                               reconnecting, speaker_connected, last_seen,
                               checks>>
           ELSE check_connection(caller)
    /\ UNCHANGED unloaded
    /\ UNCHANGED coordinator

\* connection_lost that starts the loop without setting _reconnecting
connection_lost_unflagged(i, caller) ==
    /\ sent' = [caller EXCEPT
                    !.kind = "lost",
                    !.forced = update_all_entity_states(update_callbacks),
                    !.hass = 1, !.flag = reconnecting]
    /\ checks' = [checks EXCEPT ![i].pc = "disconnecting",
                                ![i].reconnection_attempts = 0]
    /\ UNCHANGED <<checking_connection, reconnecting>>

\* connection_lost that gives _checking_connection back before the loop
connection_lost_released(i, caller) ==
    /\ sent' = [caller EXCEPT
                    !.kind = "lost",
                    !.forced = update_all_entity_states(update_callbacks),
                    !.hass = 1, !.flag = reconnecting]
    /\ reconnecting' = TRUE
    /\ checking_connection' = FALSE
    /\ checks' = [checks EXCEPT ![i].pc = "disconnecting",
                                ![i].reconnection_attempts = 0]

\* connection_lost, and _reconnect_until_connected up to its first await (the
\* first disconnect()); when it returns at once, check_connection ends;
\* caller is what check_connection has sent so far
connection_lost(i, caller) ==
    IF reconnecting
    THEN /\ sent' = [caller EXCEPT !.kind = "ignored"]
         /\ checking_connection' = FALSE
         /\ checks' = RemoveAt(checks, i)
         /\ UNCHANGED reconnecting
    ELSE /\ sent' = [caller EXCEPT
                        !.kind = "lost",
                        !.forced = update_all_entity_states(update_callbacks),
                        !.hass = 1, !.flag = reconnecting]
         /\ reconnecting' = TRUE
         /\ checks' = [checks EXCEPT ![i].pc = "disconnecting",
                                     ![i].reconnection_attempts = 0]
         /\ UNCHANGED checking_connection

\* what get_volume() can do
ProbeOutcomes == {"none", "ConnectionError", "ApiCallTimeoutError", "Exception"}

\* ProbeResolves that leaves _checking_connection set after a probe that
\* returned
ProbeResolves_flagged(i, outcome) ==
    /\ i \in 1..Len(checks)
    /\ checks[i].pc = "probing"
    /\ IF outcome = "none"
       THEN /\ checks' = RemoveAt(checks, i)
            /\ sent' = [NothingSent EXCEPT !.kind = "alive"]
            /\ UNCHANGED <<reconnecting, checking_connection>>
       ELSE connection_lost(i, [NothingSent EXCEPT !.probe_exc = outcome])
    /\ UNCHANGED <<update_callbacks, speaker_connected, last_seen, unloaded>>
    /\ UNCHANGED coordinator

\* the probe of check i resolves
ProbeResolves(i, outcome) ==
    /\ i \in 1..Len(checks)
    /\ checks[i].pc = "probing"
    /\ IF outcome = "none"
       THEN /\ checking_connection' = FALSE
            /\ checks' = RemoveAt(checks, i)
            /\ sent' = [NothingSent EXCEPT !.kind = "alive"]
            /\ UNCHANGED reconnecting
       ELSE connection_lost(i, [NothingSent EXCEPT !.probe_exc = outcome])
    /\ UNCHANGED <<update_callbacks, speaker_connected, last_seen, unloaded>>
    /\ UNCHANGED coordinator

\* AfterAttempt that takes every attempt for a success
AfterAttempt_restored(i, connected, how) ==
    /\ sent' = [NothingSent EXCEPT
                   !.kind = "restored",
                   !.forced = update_all_entity_states(update_callbacks),
                   !.hass = 1, !.flag = reconnecting, !.attempt = how]
    /\ reconnecting' = FALSE
    /\ checking_connection' = FALSE
    /\ checks' = RemoveAt(checks, i)

\* The suppress block of one attempt is over (how: all three calls returned,
\* "ok", or the call that raised) and is_connected is tested: restored (and
\* connection_lost and check_connection return), or one more failed attempt
\* and the sleep.
AfterAttempt(i, connected, how) ==
    IF connected
    THEN /\ sent' = [NothingSent EXCEPT
                        !.kind = "restored",
                        !.forced = update_all_entity_states(update_callbacks),
                        !.hass = 1, !.flag = reconnecting, !.attempt = how]
         /\ reconnecting' = FALSE
         /\ checking_connection' = FALSE
         /\ checks' = RemoveAt(checks, i)
    ELSE /\ checks[i].reconnection_attempts < MaxAttempts
         /\ checks' = [checks EXCEPT
                          ![i].pc = "sleeping",
                          ![i].reconnection_attempts = @ + 1,
                          ![i].wait_time =
                              wait_time(checks[i].reconnection_attempts + 1)]
         /\ sent' = [NothingSent EXCEPT !.kind = "failed", !.attempt = how]
         /\ UNCHANGED <<reconnecting, checking_connection>>

\* speaker.disconnect() of the attempt returns (connect() is called next) or
\* raises (the rest of the suppress block is skipped)
DisconnectResolves(i, ok) ==
    /\ i \in 1..Len(checks)
    /\ checks[i].pc = "disconnecting"
    /\ IF ok
       THEN /\ speaker_connected' = FALSE
            /\ checks' = [checks EXCEPT ![i].pc = "connecting"]
            /\ sent' = [NothingSent EXCEPT !.kind = "connect", !.connect = TRUE]
            /\ UNCHANGED <<reconnecting, checking_connection>>
       ELSE /\ UNCHANGED speaker_connected
            /\ AfterAttempt(i, speaker_connected, "disconnect")
    /\ UNCHANGED <<update_callbacks, last_seen, unloaded>>
    /\ UNCHANGED coordinator

\* speaker.connect() of the attempt returns (update() is called next) or raises
ConnectResolves(i, ok) ==
    /\ i \in 1..Len(checks)
    /\ checks[i].pc = "connecting"
    /\ IF ok
       THEN /\ speaker_connected' = TRUE
            /\ checks' = [checks EXCEPT ![i].pc = "updating"]
            /\ sent' = [NothingSent EXCEPT !.kind = "update"]
            /\ UNCHANGED <<reconnecting, checking_connection>>
       ELSE /\ speaker_connected' = FALSE
            /\ AfterAttempt(i, FALSE, "connect")
    /\ UNCHANGED <<update_callbacks, last_seen, unloaded>>
    /\ UNCHANGED coordinator

\* speaker.update() of the attempt returns, or raises with the connection
\* still up or down again
UpdateResolves(i, ok, up) ==
    /\ i \in 1..Len(checks)
    /\ checks[i].pc = "updating"
    /\ ok => up
    /\ speaker_connected' = up
    /\ last_seen' = IF ok THEN 0 ELSE last_seen
    /\ AfterAttempt(i, up, IF ok THEN "ok" ELSE "update")
    /\ UNCHANGED <<update_callbacks, unloaded>>
    /\ UNCHANGED coordinator

\* asyncio.sleep(wait_time) is over: the next attempt starts with disconnect()
SleepDone(i) ==
    /\ i \in 1..Len(checks)
    /\ checks[i].pc = "sleeping"
    /\ checks' = [checks EXCEPT ![i].pc = "disconnecting"]
    /\ sent' = NothingSent
    /\ UNCHANGED <<update_callbacks, checking_connection, reconnecting,
                   speaker_connected, last_seen, unloaded>>
    /\ UNCHANGED coordinator

\* add_update_callback, from async_added_to_hass of an entity
add_update_callback(c) ==
    /\ ~unloaded
    /\ update_callbacks' = update_callbacks \cup {c}
    /\ sent' = NothingSent
    /\ UNCHANGED <<checking_connection, reconnecting, speaker_connected,
                   last_seen, checks, unloaded>>
    /\ UNCHANGED coordinator

\* remove_update_callback, from async_will_remove_from_hass of an entity
remove_update_callback(c) ==
    /\ ~unloaded
    /\ update_callbacks' = update_callbacks \ {c}
    /\ sent' = NothingSent
    /\ UNCHANGED <<checking_connection, reconnecting, speaker_connected,
                   last_seen, checks, unloaded>>
    /\ UNCHANGED coordinator

\* the connection to the speaker breaks
LinkDrops ==
    /\ speaker_connected
    /\ ~reconnecting
    /\ speaker_connected' = FALSE
    /\ sent' = NothingSent
    /\ UNCHANGED <<update_callbacks, checking_connection, reconnecting,
                   last_seen, checks, unloaded>>
    /\ UNCHANGED coordinator

\* one more minute passes without anything received from the speaker
TimePasses ==
    /\ last_seen # NoTime
    /\ last_seen < MaxAge
    /\ last_seen' = last_seen + 1
    /\ sent' = NothingSent
    /\ UNCHANGED <<update_callbacks, checking_connection, reconnecting,
                   speaker_connected, checks, unloaded>>
    /\ UNCHANGED coordinator

\* something is received from the speaker that changes no attribute
SpeakerSeen ==
    /\ speaker_connected
    /\ last_seen # 0
    /\ last_seen' = 0
    /\ sent' = NothingSent
    /\ UNCHANGED <<update_callbacks, checking_connection, reconnecting,
                   speaker_connected, checks, unloaded>>
    /\ UNCHANGED coordinator

GROUPING_ATTRIBUTES ==
    {"is_grouped", "is_master", "is_slave", "group_name", "master_ip",
     "master_mac"}

\* the attributes that one report of the speaker can carry
Deltas == {{"volume"}, {"is_master", "master_ip"}, {"volume", "is_slave"}}

\* grouping_changed that takes every report for a change of the grouping
grouping_changed_always(attributes) == TRUE

\* GROUPING_ATTRIBUTES.intersection(attributes.keys())
grouping_changed(attributes) ==
    GROUPING_ATTRIBUTES \cap attributes # {}

\* the loop of pywam_subscriber that calls no entity
update_callbacks_none(callbacks) ==
    [c \in Callbacks |-> 0]

\* the loop of pywam_subscriber over _update_callbacks: how often each
\* callback is called with the attributes
update_callbacks_loop(callbacks) ==
    [c \in Callbacks |-> IF c \in callbacks THEN 1 ELSE 0]

\* pywam_subscriber: the speaker reports changed attributes
pywam_subscriber(attributes) ==
    /\ ~unloaded
    /\ speaker_connected
    /\ last_seen' = 0
    /\ sent' = [NothingSent EXCEPT
                   !.kind = "delta",
                   !.called = update_callbacks_loop(update_callbacks),
                   !.delta = attributes,
                   !.hass = IF grouping_changed(attributes) THEN 1 ELSE 0,
                   !.order = IF grouping_changed(attributes)
                             THEN <<"callbacks", "hass">>
                             ELSE <<"callbacks">>]
    /\ UNCHANGED <<update_callbacks, checking_connection, reconnecting,
                   speaker_connected, checks, unloaded>>
    /\ UNCHANGED coordinator

\* async_unload_entry: the platforms are unloaded (every entity of the device
\* unsubscribes), the subscriber of pywam is unregistered and the speaker is
\* disconnected, an error of disconnect() being suppressed; a running
\* check_connection is left alone
async_unload_entry(ok) ==
    /\ ~unloaded
    /\ unloaded' = TRUE
    /\ update_callbacks' = {}
    /\ speaker_connected' = IF ok THEN FALSE ELSE speaker_connected
    /\ sent' = [NothingSent EXCEPT !.kind = "unloaded"]
    /\ UNCHANGED <<checking_connection, reconnecting, last_seen, checks>>
    /\ UNCHANGED coordinator

\* ------------------------------------------------------------ specification
\* The entities were added in this order; any other order is this one with
\* the players renamed.
InitialOrder == <<1, 2, 3>>

Init ==
    /\ media_players = InitialOrder
    /\ grouping_master = NoPlayer
    /\ speakers_to_add = <<>>
    /\ speakers_to_remove = <<>>
    /\ call_later_cancel = FALSE
    /\ in_progress = FALSE
    /\ timers = 0
    /\ commits = <<>>
    /\ \E t \in Topologies :
          /\ is_master = [p \in Players |-> t[p].m]
          /\ is_slave = [p \in Players |-> t[p].s]
          /\ master_ip = [p \in Players |-> t[p].ip]
    /\ is_connected = [p \in Players |-> TRUE]
    /\ last_call = NoCall
    /\ written = {}
    /\ episode = NoEpisode
    /\ n_req = 0
    /\ n_env = 0
    /\ update_callbacks = {}
    /\ checking_connection = FALSE
    /\ reconnecting = FALSE
    /\ speaker_connected = TRUE
    /\ last_seen = 0
    /\ checks = <<>>
    /\ unloaded = FALSE
    /\ sent = NothingSent

Next ==
    \/ \E m \in Players, ids \in SeqsUpTo(Players, MaxMembers) :
          add_speakers_to_group(m, ids)
    \/ \E m \in Players, id \in Players : remove_speaker_from_group(m, id)
    \/ TimerFires
    \/ \E i \in 1..Len(commits), o \in GroupOutcomes : GroupResolves(i, o)
    \/ \E i \in 1..Len(commits) : SettleDone(i)
    \/ SpeakersReport
    \/ \E e \in Players : EntityAdded(e)
    \/ \E e \in Players : EntityRemoved(e)
    \/ \E p \in Players : ConnectionChange(p)
    \/ \E p \in Players : \E r \in Roles(p) : PushEvent(p, r)

Spec == Init /\ [][Next]_vars

\* The device on its own: async_setup_entry has connected the speaker; the
\* coordinator is at rest, with no groups.
DeviceInit ==
    /\ Init
    /\ \A p \in Players : ~is_master[p] /\ ~is_slave[p]

DeviceNext ==
    \/ \E err \in CommandErrors, timeout \in BOOLEAN : CommandFails(err, timeout)
    \/ periodic_connection_check
    \/ \E i \in 1..Len(checks), o \in ProbeOutcomes : ProbeResolves(i, o)
    \/ \E i \in 1..Len(checks), ok \in BOOLEAN : DisconnectResolves(i, ok)
    \/ \E i \in 1..Len(checks), ok \in BOOLEAN : ConnectResolves(i, ok)
    \/ \E i \in 1..Len(checks), ok, up \in BOOLEAN : UpdateResolves(i, ok, up)
    \/ \E i \in 1..Len(checks) : SleepDone(i)
    \/ \E c \in Callbacks : add_update_callback(c)
    \/ \E c \in Callbacks : remove_update_callback(c)
    \/ LinkDrops
    \/ TimePasses
    \/ SpeakerSeen
    \/ \E attributes \in Deltas : pywam_subscriber(attributes)
    \/ \E ok \in BOOLEAN : async_unload_entry(ok)

DeviceSpec == DeviceInit /\ [][DeviceNext]_vars

\* The reports of a speaker while the entities of the coordinator come and
\* go: the device stays connected, the speakers of the players are in any
\* topology.
EventNext ==
    \/ \E attributes \in Deltas : pywam_subscriber(attributes)
    \/ \E c \in Callbacks : add_update_callback(c)
    \/ \E c \in Callbacks : remove_update_callback(c)
    \/ \E e \in Players : EntityAdded(e)
    \/ \E e \in Players : EntityRemoved(e)
    \/ \E p \in Players : ConnectionChange(p)

EventSpec == Init /\ [][EventNext]_vars

\* ================================================================== claims
MemberLists == SeqsUpTo(Players, MaxMembers)

Cleared ==
    /\ grouping_master = NoPlayer
    /\ speakers_to_add = <<>>
    /\ speakers_to_remove = <<>>
    /\ call_later_cancel = FALSE
    /\ in_progress = FALSE

C2_TwoAddsOneCall ==
    \A i \in 1..Len(commits) :
        (/\ commits[i].pc = "sleeping"
         /\ episode.adds = 2
         /\ Cardinality(episode.added) = 2
         /\ grouping_master \notin episode.added) =>
            /\ episode.calls = 1
            /\ commits[i].master = grouping_master
            /\ episode.added \subseteq commits[i].after

\* C2 amended: such an episode makes at most one physical call; it makes
\* exactly one, on the master's speaker and with slaves after that contain
\* every member of both requests, when the master and all members to add are
\* still registered as the timer fires, and none otherwise.
C2_TwoAddsOneCallIfRegistered ==
    /\ [](\A i \in 1..Len(commits) :
            episode.adds >= 2 =>
                /\ episode.calls <= 1
                /\ commits[i].master = grouping_master
                /\ (episode.calls = 1 => episode.added \subseteq commits[i].after)
                /\ (commits[i].pc = "calling" => episode.calls = 1))
    /\ [][(~in_progress /\ in_progress' /\ episode.adds >= 2) =>
            /\ episode.added = Range(speakers_to_add)
            /\ episode'.calls =
                  IF /\ Registered(grouping_master)
                     /\ \A s \in episode.added : Registered(s)
                  THEN 1 ELSE 0]_vars

\* two requests with different members were merged into one successful call
C2_Witness ==
    \E i \in 1..Len(commits) :
        /\ commits[i].pc = "sleeping" /\ commits[i].exc = "none"
        /\ episode.adds = 2 /\ episode.calls = 1
        /\ Cardinality(episode.added) = 2
        /\ episode.added \subseteq commits[i].after

\* ---------------------------------------------------------------------- C3
HasMasterMember(ids) ==
    \E k \in 1..Len(ids) : Registered(ids[k]) /\ is_master[ids[k]]

\* C3 as stated: an add request naming a member that is a master fails with
\* WamGroupError and is not accepted (nothing is changed).
C3_MasterMemberRaises ==
    \A m \in Players, ids \in MemberLists :
        HasMasterMember(ids) =>
            add_raises(m, ids) = "WamGroupError" /\ ~add_accepted(m, ids)

\* C3 amended: an add request naming a member that is a master is never
\* accepted, so that it changes nothing; it fails with WamGroupError when no
\* commit is in progress and the master id is registered, returns silently
\* while a commit is in progress, and fails with KeyError when the master id
\* is not registered.
C3_MasterMemberRefused ==
    \A m \in Players, ids \in MemberLists :
        HasMasterMember(ids) =>
            /\ ~add_accepted(m, ids)
            /\ add_raises(m, ids) =
                  IF in_progress THEN "none"
                  ELSE IF ~Registered(m) THEN "KeyError"
                  ELSE "WamGroupError"

\* a request whose first member is valid and whose second member is a master,
\* for a valid master and with no commit in progress
C3_Witness ==
    /\ ~in_progress
    /\ \E m \in Players, ids \in MemberLists :
          /\ Len(ids) = 2
          /\ validate_master(m) = "none"
          /\ validate_one_to_add(m, ids[1]) = "none"
          /\ Registered(ids[2]) /\ is_master[ids[2]]
          /\ grouping_master \in {NoPlayer, m}

\* ---------------------------------------------------------------------- C4
\* the speakers report the topology of the last successful call
ReportStep == last_call.state = "ok" /\ last_call'.state = "none"

\* the players of S in the order they were registered in
InRegistrationOrder(S) == SelectSeq(media_players, LAMBDA e : e \in S)

\* C4 as stated: after an episode that only added members, once the call has
\* succeeded and the speakers have reported, the master's group members are
\* the master followed by the requested members in the order of the request.
\* (Stated for the plainest case: a master without slaves, members that are
\* distinct and not the master, everybody registered and available.)
C4_MembersInRequestOrder ==
    [][ReportStep =>
          \A m \in Players, ids \in MemberLists :
              (/\ last_call.master = m
               /\ last_call.to_add = ids
               /\ last_call.to_remove = <<>>
               /\ last_call.before = <<>>
               /\ m \notin Range(ids)
               /\ Cardinality(Range(ids)) = Len(ids)
               /\ Len(ids) > 0
               /\ \A e \in Players : Registered(e) /\ is_connected[e])
              => (group_members(m) = <<m>> \o ids)']_vars

\* C4 amended: after such an episode the master's group members are the
\* master followed, in the order the players were registered in (whatever the
\* order of the request), by the registered available players that report the
\* master's address, each once; these include every registered available
\* member of the call's slaves after (the requested members and the slaves the
\* master had before).
C4_MembersInRegistrationOrder ==
    [][(ReportStep /\ last_call.to_remove = <<>>) =>
        \A m \in Players, after \in SUBSET Players :
          (/\ last_call.master = m
           /\ last_call.after = after
           /\ after \ {m} # {})
          => (LET slaves == {e \in Range(media_players) \ {m} :
                               is_connected[e] /\ master_ip[e] = Ip(m)}
              IN /\ group_members(m) = <<m>> \o InRegistrationOrder(slaves)
                 /\ {e \in Range(media_players) \cap after :
                       is_connected[e]} \ {m} \subseteq slaves)']_vars

\* the members were requested against the registration order and the call
\* for them succeeded
C4_Witness ==
    /\ last_call.state = "ok"
    /\ last_call.to_remove = <<>>
    /\ Len(last_call.to_add) = 2
    /\ last_call.to_add[1] # last_call.to_add[2]
    /\ InRegistrationOrder(Range(last_call.to_add)) # last_call.to_add
    /\ \A e \in Range(last_call.to_add) \cup {last_call.master} :
          Registered(e) /\ is_connected[e]

\* ---------------------------------------------------------------------- C5
Distinct3(a, b, c) == a # b /\ b # c /\ a # c

\* S1 is a master whose resolved slaves are S2 and S3, all registered and
\* available
MasterOfTwo(S1, S2, S3) ==
    /\ is_master[S1]
    /\ group_members(S1) \in {<<S1, S2, S3>>, <<S1, S3, S2>>}
    /\ \A e \in {S1, S2, S3} : Registered(e) /\ is_connected[e]

\* C5: for a master S1 with the resolved slaves S2 and S3 (all registered and
\* available) and a coordinator with no commit in progress and no operation
\* pending for another master, remove(S1, S2) is accepted; the commit of that
\* request alone calls group(before = [S2, S3], after = {S3}) on S1; and once
\* the speakers have reported, S1's members are [S1, S3] and S2 has none.
C5_RemoveScenario ==
    /\ [](~in_progress =>
            \A S1 \in Players :
                (is_master[S1] /\ grouping_master \in {NoPlayer, S1}) =>
                    \A S2, S3 \in Players \ {S1} :
                        (S2 # S3 /\ MasterOfTwo(S1, S2, S3))
                        => remove_accepted(S1, S2) /\ remove_raises(S1, S2) = "none")
    /\ [][(/\ ~in_progress /\ in_progress'
           /\ Len(speakers_to_remove) = 1
           /\ speakers_to_add = <<>>) =>
            \A S1, S2, S3 \in Players :
                (/\ grouping_master = S1
                 /\ speakers_to_remove = <<S2>>
                 /\ Distinct3(S1, S2, S3)
                 /\ MasterOfTwo(S1, S2, S3))
                => /\ last_call'.state = "inflight"
                   /\ last_call'.master = S1
                   /\ Range(last_call'.before) = {S2, S3}
                   /\ last_call'.after = {S3}
                   /\ episode'.calls = 1]_vars
    /\ [][ReportStep =>
            \A S1, S2, S3 \in Players :
                (/\ last_call.master = S1
                 /\ Distinct3(S1, S2, S3)
                 /\ Range(last_call.before) = {S2, S3}
                 /\ last_call.after = {S3}
                 /\ Registered(S1) /\ is_connected[S1]
                 /\ Registered(S3) /\ is_connected[S3])
                => (group_members(S1) = <<S1, S3>> /\ group_members(S2) = None)']_vars

\* the call of the scenario was made and has succeeded
C5_Witness ==
    /\ last_call.state = "ok"
    /\ last_call.to_remove = <<2>> /\ last_call.to_add = <<>>
    /\ last_call.master = 1
    /\ last_call.before = <<2, 3>>
    /\ last_call.after = {3}
    /\ \A e \in Players : Registered(e) /\ is_connected[e]

\* ---------------------------------------------------------------------- C6
InFlight == {i \in 1..Len(commits) : commits[i].pc = "calling"}

\* C6: at most one physical group() call of the coordinator is in flight, at
\* most one commit runs, and from the start of a commit until its pending
\* state is cleared no request is accepted: the pending operation does not
\* change and no timer is armed.
C6_OneCommitAtATime ==
    /\ [](/\ Cardinality(InFlight) <= 1
          /\ Len(commits) = (IF in_progress THEN 1 ELSE 0)
          /\ in_progress => timers = 0)
    /\ [][(in_progress /\ in_progress') =>
             /\ UNCHANGED <<pending, timers, episode.adds, episode.removes>>
             /\ n_req' = n_req]_vars

\* a call is in flight while another request could be accepted but for the
\* commit in progress
C6_Witness ==
    /\ InFlight # {}
    /\ n_req < MaxRequests
    /\ \E m \in Players, ids \in MemberLists : ids # <<>> /\ AddRaises(m, ids) = "none"

\* ---------------------------------------------------------------------- C7
\* The call of a commit resolves and the sleep of its finally clause ends.
FairSpec ==
    /\ Spec
    /\ WF_vars(\E i \in 1..Len(commits), o \in GroupOutcomes : GroupResolves(i, o))
    /\ WF_vars(\E i \in 1..Len(commits) : SettleDone(i))

\* C7: every commit that has started reaches a state in which the pending
\* operation is cleared and every registered available player has just been
\* written, whatever the call did (returned, raised, or was never made); and
\* the pending state is cleared only by a commit whose call has resolved.
C7_CommitEndsCleared ==
    /\ in_progress ~>
          (Cleared /\ written = {e \in Range(media_players) : is_connected[e]})
    /\ [][(in_progress /\ ~in_progress') =>
             /\ Len(commits) = 1 /\ commits[1].pc = "sleeping"
             /\ Cleared'
             /\ written' = {e \in Range(media_players) : is_connected[e]}]_vars

\* a commit is waiting to clear: after a call that the speaker failed, or
\* without a call because a player was not registered
C7_Witness ==
    /\ in_progress
    /\ \E i \in 1..Len(commits) :
          commits[i].pc = "sleeping" /\ commits[i].exc \in {"PywamError", "KeyError"}
    /\ \E e \in Range(media_players) : ~is_connected[e]

\* ---------------------------------------------------------------------- C8
\* C8 as stated: the commit issues exactly one physical call, on the master's
\* speaker, with the slaves before being the master's resolved members
\* without the master and the slaves after being (before - toRemove) + toAdd.
C8_CommitCall ==
    [][(~in_progress /\ in_progress') =>
          /\ episode'.calls = 1
          /\ last_call'.state = "inflight"
          /\ last_call'.master = grouping_master
          /\ last_call'.before =
                (IF group_members(grouping_master) = None THEN <<>>
                 ELSE Tail(group_members(grouping_master)))
          /\ last_call'.after =
                (Range(last_call'.before) \ Range(speakers_to_remove))
                    \cup Range(speakers_to_add)]_vars

\* C8 amended: when the master and all members to add are registered as the
\* timer fires, the commit issues exactly one physical call, on the master's
\* speaker, with the slaves before being the master's resolved members
\* without the master and the slaves after being (before - toRemove) + toAdd,
\* so that a player both to add and to remove is among the slaves after;
\* otherwise it issues no call.
C8_CommitCallIfRegistered ==
    [][(~in_progress /\ in_progress') =>
          IF /\ Registered(grouping_master)
             /\ \A s \in Range(speakers_to_add) : Registered(s)
          THEN /\ episode'.calls = 1
               /\ Len(commits') = 1 /\ commits'[1].pc = "calling"
               /\ last_call'.state = "inflight"
               /\ last_call'.master = grouping_master
               /\ last_call'.before = Tail(group_members(grouping_master))
               /\ last_call'.after =
                     (Range(last_call'.before) \ Range(speakers_to_remove))
                         \cup Range(speakers_to_add)
               /\ Range(speakers_to_add) \subseteq last_call'.after
          ELSE /\ episode'.calls = 0
               /\ Len(commits') = 1 /\ commits'[1].pc = "sleeping"
               /\ UNCHANGED last_call]_vars

\* a call was issued for a pending operation that both adds and removes one
\* player, who is among the slaves after
C8_Witness ==
    /\ last_call.state = "inflight"
    /\ \E s \in Range(last_call.to_add) \cap Range(last_call.to_remove) :
          s \in last_call.after /\ s \in Range(last_call.before)

\* ---------------------------------------------------------------------- C9
\* the address of the master of the group that d reports to be in
GroupMasterIp(d) == IF is_master[d] THEN Ip(d) ELSE master_ip[d]

\* C9: for every registered player d, group_members is None exactly when d is
\* neither master nor slave; otherwise it is a list that starts with the
\* master of d's group, followed by players that report that master.
C9_MasterFirst ==
    \A d \in Range(media_players) :
        /\ (group_members(d) = None) <=> (~is_master[d] /\ ~is_slave[d])
        /\ group_members(d) # None =>
              /\ group_members(d) # <<>>
              /\ Ip(group_members(d)[1]) = GroupMasterIp(d)
              /\ \A k \in 2..Len(group_members(d)) :
                    master_ip[group_members(d)[k]] = GroupMasterIp(d)


\* --------------------------------------------------------------------- C11
\* the member reports itself as a slave of exactly m and is in m's resolved
\* member list
SlaveInGroupOf(m, id) ==
    /\ is_slave[id] /\ master_ip[id] = Ip(m)
    /\ group_members(m) # None
    /\ id \in Range(group_members(m))

\* C11: with no commit in progress and both players registered, a remove
\* request is accepted only if the member reports itself as a slave of
\* exactly the master and is in the master's resolved member list; in every
\* other case, the one of a master without a group and a member that is a
\* slave of another master included, it fails with WamGroupError and is not
\* accepted.
C11_RemoveRefusedWithGroupError ==
    ~in_progress =>
        \A m \in Range(media_players), id \in Range(media_players) :
            /\ remove_accepted(m, id) => SlaveInGroupOf(m, id)
            /\ ~SlaveInGroupOf(m, id) =>
                  /\ remove_raises(m, id) = "WamGroupError"
                  /\ ~remove_accepted(m, id)

\* --------------------------------------------------------------------- C12
\* the registered players that report m's address as their master
SlavesReporting(m) ==
    {e \in Range(media_players) \ {m} : is_slave[e] /\ master_ip[e] = Ip(m)}

\* no request naming m as the master is accepted
MasterRefused(m) ==
    /\ \A ids \in MemberLists : ~add_accepted(m, ids)
    /\ \A id \in Players : ~remove_accepted(m, id)

\* C12: with no commit in progress, a request naming a registered master that
\* is itself a slave fails with WamGroupError and is not accepted; and a
\* request naming a registered player that is a master is not accepted unless
\* the slaves of its resolved member list are exactly the registered players
\* that report its address as their master.
C12_MasterValidated ==
    ~in_progress =>
        \A m \in Range(media_players) :
            /\ is_slave[m] =>
                  /\ MasterRefused(m)
                  /\ \A ids \in MemberLists : add_raises(m, ids) = "WamGroupError"
                  /\ \A id \in Players : remove_raises(m, id) = "WamGroupError"
            /\ (is_master[m] /\ Range(Tail(group_members(m))) # SlavesReporting(m))
                  => MasterRefused(m)

\* --------------------------------------------------------------------- C13
\* some member of the request is a slave of a master other than m
HasOtherSlave(m, ids) ==
    \E k \in 1..Len(ids) : is_slave[ids[k]] /\ master_ip[ids[k]] # Ip(m)

\* C13 as stated: an add request with a member that is a slave of another
\* master fails with WamGroupError and is not accepted; a member that is a
\* slave of the named master passes the validation of the members.
C13_OtherSlaveRaises ==
    \A m \in Players :
        /\ \A ids \in MemberLists :
              HasOtherSlave(m, ids) =>
                  add_raises(m, ids) = "WamGroupError" /\ ~add_accepted(m, ids)
        /\ \A id \in Range(media_players) :
              (Registered(m) /\ is_slave[id] /\ master_ip[id] = Ip(m))
                  => validate_one_to_add(m, id) = "none"

\* C13 amended: an add request with a member that is a slave of another
\* master is never accepted; it fails with WamGroupError when no commit is in
\* progress and the master is registered, returns silently during a commit,
\* and fails with KeyError for a master that is not registered.  With no
\* commit in progress and no operation pending for another master, a request
\* for one registered available member that is a slave of the named master is
\* accepted when the named master reports itself as a master, and fails with
\* WamGroupError when it does not.
C13_OtherSlaveRefused ==
    \A m \in Players :
        /\ \A ids \in MemberLists :
              HasOtherSlave(m, ids) =>
                  /\ ~add_accepted(m, ids)
                  /\ add_raises(m, ids) =
                        IF in_progress THEN "none"
                        ELSE IF ~Registered(m) THEN "KeyError"
                        ELSE "WamGroupError"
        /\ \A id \in Range(media_players) :
              (/\ ~in_progress
               /\ Registered(m)
               /\ grouping_master \in {NoPlayer, m}
               /\ is_connected[id]
               /\ is_slave[id] /\ master_ip[id] = Ip(m))
              => IF is_master[m]
                 THEN add_accepted(m, <<id>>) /\ add_raises(m, <<id>>) = "none"
                 ELSE ~add_accepted(m, <<id>>)
                      /\ add_raises(m, <<id>>) = "WamGroupError"

\* a request for a valid master whose first member is a slave of that master
\* and whose second member is a slave of another one
C13_Witness ==
    /\ ~in_progress
    /\ \E m \in Players, ids \in MemberLists :
          /\ Len(ids) = 2
          /\ validate_master(m) = "none"
          /\ grouping_master \in {NoPlayer, m}
          /\ is_slave[ids[1]] /\ master_ip[ids[1]] = Ip(m)
          /\ validate_one_to_add(m, ids[1]) = "none"
          /\ Registered(ids[2]) /\ is_connected[ids[2]]
          /\ is_slave[ids[2]] /\ master_ip[ids[2]] # Ip(m)

\* --------------------------------------------------------------------- C14
\* C14: a commit that ends without a successful physical call, because the
\* speaker raised an error of the library or because the master or a member
\* was not registered when the timer fired, ends with WamGroupError.
C14_CommitFailsWithGroupError ==
    \A i \in 1..Len(commits) :
        (commits[i].pc = "sleeping" /\ commits[i].exc \in {"PywamError", "KeyError"})
            => CommitRaises(commits[i].exc) = "WamGroupError"

\* --------------------------------------------------------------------- C15
\* the physical call of a commit fails in this step
CallFails ==
    /\ Len(commits) = 1 /\ Len(commits') = 1
    /\ commits[1].pc = "calling"
    /\ commits'[1].pc = "sleeping" /\ commits'[1].exc # "none"

\* C15: a physical call is issued only by a firing of the settle timer, one
\* call at most for each firing; a timer is armed only by a request that is
\* accepted; the step in which a call fails and the end of the commit issue
\* no call and arm no timer, and leave no timer and no call behind.
C15_NoRetry ==
    /\ [](/\ episode.calls <= episode.fires
          /\ ~call_later_cancel => timers = 0)
    /\ [][episode'.calls > episode.calls =>
             /\ episode'.calls = episode.calls + 1
             /\ episode'.fires = episode.fires + 1
             /\ timers' = timers - 1]_vars
    /\ [][last_call'.state = "inflight" /\ last_call.state # "inflight" =>
             episode'.calls = episode.calls + 1]_vars
    /\ [][timers' > timers => ~in_progress /\ n_req' = n_req + 1]_vars
    /\ [][CallFails =>
             /\ UNCHANGED <<timers, pending, in_progress, episode>>
             /\ last_call' = NoCall]_vars
    /\ [][(in_progress /\ ~in_progress') =>
             /\ timers' = 0 /\ Cleared'
             /\ last_call'.state # "inflight"
             /\ commits' = <<>>]_vars

\* the call of a commit has failed and another request can still be made
C15_Witness ==
    /\ n_req < MaxRequests
    /\ Len(commits) = 1
    /\ commits[1].pc = "sleeping"
    /\ commits[1].exc \in {"PywamError", "ConnectionError"}
    /\ episode.calls = 1

\* --------------------------------------------------------------------- C16
IsPrefix(s, t) == Len(s) <= Len(t) /\ SubSeq(t, 1, Len(s)) = s

\* C16: at most one settle timer is armed and an episode has at most one
\* firing; a request accepted while the timer is armed leaves that timer as
\* the only one, keeps the master and only extends the lists to add and to
\* remove; and the commit that ends an episode follows exactly one firing.
C16_OneTimerPerEpisode ==
    /\ [](/\ timers <= 1
          /\ episode.fires <= 1
          /\ timers = 1 => call_later_cancel /\ episode.fires = 0 /\ ~in_progress)
    /\ [][(timers = 1 /\ n_req' = n_req + 1) =>
             /\ timers' = 1 /\ call_later_cancel'
             /\ grouping_master' = grouping_master
             /\ IsPrefix(speakers_to_add, speakers_to_add')
             /\ IsPrefix(speakers_to_remove, speakers_to_remove')
             /\ UNCHANGED <<in_progress, commits, episode.fires>>]_vars
    /\ [][(in_progress /\ ~in_progress') => episode.fires = 1]_vars

\* a second request was accepted while the timer of the first was armed
C16_Witness ==
    /\ timers = 1
    /\ episode.adds + episode.removes = 2
    /\ speakers_to_add # <<>>
    /\ speakers_to_remove # <<>>

\* --------------------------------------------------------------------- C17
\* C17: at most one check_connection coroutine of the device is inside the
\* reconnection loop; the loop runs exactly while _reconnecting is set, and
\* inside the check that found the loss; and while the device is reconnecting
\* no step sends the loss notification or starts a loop, a step that a check
\* or a tick returned from at its guard changes nothing of the device, and
\* connect() is called only by the one loop, after its disconnect().
C17_OneReconnectionLoop ==
    /\ [](/\ Cardinality(Loops) <= 1
          /\ (Loops # {}) <=> reconnecting
          /\ reconnecting => checking_connection)
    /\ [][(reconnecting /\ reconnecting') =>
             /\ sent'.kind # "lost"
             /\ Loops' = Loops
             /\ sent'.kind \in {"ignored", "skipped", "logged"} =>
                   UNCHANGED <<checks, checking_connection, speaker_connected,
                               update_callbacks>>
             /\ sent'.connect =>
                   \E i \in Loops : /\ checks[i].pc = "disconnecting"
                                    /\ checks'[i].pc = "connecting"]_vars

\* a failing command has just asked for a connection check while the loop of
\* the device was asleep between two attempts
C17_Witness ==
    /\ reconnecting
    /\ sent.kind = "ignored"
    /\ \E i \in 1..Len(checks) :
          checks[i].pc = "sleeping" /\ checks[i].reconnection_attempts >= 2

\* --------------------------------------------------------------------- C18
\* C18 as stated, in its second sentence: an attempt in which connect()
\* returned and update() raised counts as a failed attempt; the device stays
\* reconnecting and the loop sleeps before another attempt.
C18_UpdateFailureRetries ==
    [][(reconnecting /\ sent'.attempt = "update" /\ sent' # sent) =>
          /\ reconnecting'
          /\ sent'.kind = "failed"
          /\ \E i \in Loops' : checks'[i].pc = "sleeping"]_vars

\* C18 amended: the device leaves Reconnecting only at the end of an attempt
\* after which speaker.is_connected is true, and then sends the restored
\* notification: that is an attempt in which all three calls returned, one in
\* which update() raised with the connection up, or one in which disconnect()
\* raised (connect() was not called) with the connection still up.  An
\* attempt after which is_connected is false, whichever call raised, is a
\* failed attempt: the flag stays set, nothing is notified, the attempt count
\* grows by one and the loop sleeps.
C18_LeavesWhenConnected ==
    /\ [][(reconnecting /\ ~reconnecting') =>
             /\ sent'.kind = "restored"
             /\ sent'.attempt \in {"ok", "update", "disconnect"}
             /\ speaker_connected'
             /\ Loops' = {}]_vars
    /\ [][(reconnecting /\ sent'.attempt # "none" /\ sent' # sent) =>
             IF speaker_connected'
             THEN ~reconnecting' /\ sent'.kind = "restored"
             ELSE /\ reconnecting' /\ checking_connection'
                  /\ sent'.kind = "failed" /\ sent'.hass = 0
                  /\ \E i \in Loops :
                        /\ checks'[i].pc = "sleeping"
                        /\ checks'[i].reconnection_attempts =
                              checks[i].reconnection_attempts + 1]_vars
    /\ [](sent.kind = "restored" => ~reconnecting /\ speaker_connected)

\* connect() returned, update() raised and the connection was down again: the
\* loop sleeps before another attempt
C18_Witness ==
    /\ reconnecting
    /\ sent.kind = "failed" /\ sent.attempt = "update"
    /\ \E i \in 1..Len(checks) : checks[i].pc = "sleeping"

\* --------------------------------------------------------------------- C19
\* the sleeps of the comment "We will wait 20, 40, 80, 160, 320 and max 640"
Delays == <<20, 40, 80, 160, 320, 640>>

\* C19: the sleep after the k-th failed attempt of a loop is the k-th of 20,
\* 40, 80, 160, 320, 640 seconds and 640 from the sixth on; a sleep is never
\* shorter than the one before in the loop; and a loop starts with no failed
\* attempt, so that its first sleep is 20 seconds.
C19_BackoffDelays ==
    /\ [](\A i \in 1..Len(checks) :
            checks[i].pc = "sleeping" =>
                /\ checks[i].reconnection_attempts >= 1
                /\ checks[i].wait_time =
                      Delays[Min(checks[i].reconnection_attempts, 6)]
                /\ checks[i].wait_time <= 640)
    /\ [][\A i \in Loops \cap Loops' :
            (checks[i].pc # "sleeping" /\ checks'[i].pc = "sleeping") =>
                /\ checks'[i].reconnection_attempts =
                      checks[i].reconnection_attempts + 1
                /\ checks'[i].wait_time >= checks[i].wait_time
                /\ checks[i].reconnection_attempts = 0 =>
                      checks'[i].wait_time = 20]_vars
    /\ [][(~reconnecting /\ reconnecting') =>
            \A i \in Loops' : /\ checks'[i].reconnection_attempts = 0
                              /\ checks'[i].wait_time = 0
                              /\ checks'[i].pc = "disconnecting"]_vars

\* the loop sleeps after its seventh failed attempt
C19_Witness ==
    \E i \in 1..Len(checks) :
        /\ checks[i].pc = "sleeping"
        /\ checks[i].reconnection_attempts = 7
        /\ checks[i].wait_time = 640

\* --------------------------------------------------------------------- C20
\* C20: the step in which the device leaves Reconnecting calls every callback
\* subscribed at that moment once with force_update=True, and no other
\* callback, and calls update_hass_states of the coordinator once, both with
\* _reconnecting still set; and no step of the loop taken while the device
\* stays reconnecting (a failed attempt among them) forces an update or calls
\* the coordinator.
C20_RestoredNotifiesOnce ==
    /\ [][(reconnecting /\ ~reconnecting') =>
             /\ sent'.kind = "restored"
             /\ sent'.forced =
                   [c \in Callbacks |-> IF c \in update_callbacks THEN 1 ELSE 0]
             /\ sent'.hass = 1
             /\ sent'.flag]_vars
    /\ [][(reconnecting /\ reconnecting') =>
             /\ sent'.kind # "delta" => sent'.hass = 0
             /\ \A c \in Callbacks : sent'.forced[c] = 0]_vars

\* the connection was restored after a failed attempt while one of the two
\* entities was subscribed
C20_Witness ==
    /\ sent.kind = "restored"
    /\ sent.attempt = "ok"
    /\ sent.forced[1] = 1 /\ sent.forced[2] = 0
    /\ update_callbacks = {1}

\* ---------------------------------------------------------------- C21..C30
\* what of the device a step leaves alone when it only reports
DeviceAtRest ==
    UNCHANGED <<update_callbacks, checking_connection, reconnecting,
                speaker_connected, last_seen, checks, unloaded>>

\* the step starts a check: the probe is sent by a new check_connection
\* coroutine, and nothing else happens
StartsCheck ==
    /\ ~checking_connection
    /\ checking_connection'
    /\ sent'.probe
    /\ checks' = Append(checks, [NoTask EXCEPT !.pc = "probing"])
    /\ Loops' = Loops
    /\ sent'.hass = 0
    /\ \A c \in Callbacks : sent'.forced[c] = 0 /\ sent'.called[c] = 0
    /\ UNCHANGED <<update_callbacks, reconnecting, speaker_connected,
                   last_seen, unloaded>>

\* C21: the reconnection loop has no attempt limit, and a speaker whose
\* connect() and update() return is reconnected even when disconnect() keeps
\* failing: an attempt of the loop fails only because connect() or update()
\* raised.
C21_AttemptFailsOnlyByConnecting ==
    [][(~unloaded /\ sent'.kind = "failed") =>
          sent'.attempt \in {"connect", "update"}]_vars

\* C22 as stated: a command that fails with a ConnectionError while the device
\* is not reconnecting moves the device to Reconnecting in the same step, also
\* when a check is in progress and when the probe would return.
C22_CommandStartsReconnecting ==
    [][(sent'.by = "ConnectionError" /\ ~reconnecting) => reconnecting']_vars

\* C22: a command that fails with a ConnectionError calls check_connection:
\* when no check is running the probe is sent and the device is checking, not
\* yet reconnecting; when a check is running nothing happens at all.  The
\* device becomes reconnecting only in the step in which a probe raises, and
\* stays as it was when the probe returns.
C22_CommandStartsCheck ==
    /\ [][sent'.by = "ConnectionError" =>
             /\ sent'.kind \in {"check", "ignored"}
             /\ sent'.kind = "check" <=> ~checking_connection
             /\ sent'.kind = "check" => StartsCheck
             /\ sent'.kind = "ignored" => DeviceAtRest /\ ~sent'.probe]_vars
    /\ [][(~reconnecting /\ reconnecting') =>
             /\ sent'.kind = "lost"
             /\ \E i \in 1..Len(checks) :
                   /\ checks[i].pc = "probing"
                   /\ checks'[i].pc = "disconnecting"]_vars
    /\ [][sent'.kind = "alive" => UNCHANGED reconnecting]_vars

\* a command failed with a ConnectionError while a check was probing: it was
\* ignored and the device is not reconnecting
C22_Witness ==
    /\ sent.by = "ConnectionError"
    /\ sent.kind = "ignored"
    /\ ~reconnecting
    /\ \E i \in 1..Len(checks) : checks[i].pc = "probing"

C24_TickPolicy ==
    [][sent'.by = "tick" =>
          IF /\ ~checking_connection
             /\ ~reconnecting
             /\ last_seen # NoTime
             /\ last_seen >= PING_INTERVAL + 1
          THEN sent'.kind = "check" /\ StartsCheck
          ELSE /\ sent'.kind = "skipped"
               /\ ~sent'.probe
               /\ sent'.hass = 0
               /\ DeviceAtRest]_vars

\* a tick sent the probe when the speaker was last seen exactly
\* PING_INTERVAL + 1 minutes ago
C24_Witness ==
    /\ sent.by = "tick"
    /\ sent.kind = "check"
    /\ last_seen = PING_INTERVAL + 1

\* C26: every report of the speaker calls each callback subscribed at that
\* moment once with the reported attributes and without force_update, and no
\* other callback; every forced update (connection lost or restored) calls
\* each subscribed callback once with force_update=True; no other step calls
\* a callback.  The subscribers form a set: subscribing a subscribed callback
\* and unsubscribing one that is not subscribed change nothing, so a callback
\* is never called twice for one report.
C26_OneCallPerSubscriber ==
    /\ [][sent'.kind = "delta" =>
             /\ sent'.called =
                   [c \in Callbacks |-> IF c \in update_callbacks THEN 1 ELSE 0]
             /\ \A c \in Callbacks : sent'.forced[c] = 0
             /\ sent'.delta \in Deltas
             /\ UNCHANGED update_callbacks]_vars
    /\ [][sent'.kind \in {"lost", "restored"} =>
             /\ sent'.forced =
                   [c \in Callbacks |-> IF c \in update_callbacks THEN 1 ELSE 0]
             /\ \A c \in Callbacks : sent'.called[c] = 0]_vars
    /\ [][sent'.kind \notin {"delta", "lost", "restored"} =>
             \A c \in Callbacks : sent'.called[c] = 0 /\ sent'.forced[c] = 0]_vars
    /\ [][(update_callbacks' # update_callbacks /\ ~unloaded') =>
             \E c \in Callbacks :
                \/ c \notin update_callbacks
                   /\ update_callbacks' = update_callbacks \cup {c}
                \/ c \in update_callbacks
                   /\ update_callbacks' = update_callbacks \ {c}]_vars

\* the speaker reported its volume while the first entity was subscribed and
\* the second was not
C26_Witness ==
    /\ sent.kind = "delta"
    /\ sent.delta = {"volume"}
    /\ update_callbacks = {1}
    /\ sent.called[1] = 1 /\ sent.called[2] = 0

\* C27: no step of the coordinator (request, timer, commit, settle, report,
\* registration) changes _checking_connection or _reconnecting of a device or
\* starts a check.
C27_CoordinatorLeavesDevice ==
    [][UNCHANGED <<checking_connection, reconnecting, checks>>]_vars

\* the physical call of a commit failed with a ConnectionError and the device
\* is neither checking nor reconnecting
C27_Witness ==
    /\ \E i \in 1..Len(commits) :
          commits[i].pc = "sleeping" /\ commits[i].exc = "ConnectionError"
    /\ ~checking_connection
    /\ ~reconnecting
    /\ checks = <<>>

\* C28: once the entry of the device is unloaded, a reconnection loop that was
\* running (or sleeping) at the unload attempts no connect() and sends no
\* notification for the device any more.
C28_QuietAfterUnload ==
    [][(unloaded /\ Loops # {}) =>
          /\ ~sent'.connect
          /\ sent'.hass = 0
          /\ \A c \in Callbacks : sent'.forced[c] = 0]_vars

\* the registered players, without their order
RegisteredSet(reg) == Range(reg)

\* C29: registering and unregistering a media player change the directory
\* only: the pending operation, the timer and the commits stay as they are.
\* Unregistering a player that is not registered leaves the directory as it
\* is, registering one that is registered keeps its single entry, and the
\* directory never holds a player twice.
C29_DirectoryOnly ==
    /\ [][media_players' # media_players =>
             UNCHANGED <<coord, timers, commits, episode, last_call>>]_vars
    /\ [](Cardinality(RegisteredSet(media_players)) = Len(media_players))
    /\ [](\A e \in Players :
             /\ RegisteredSet(add_media_player(media_players, e))
                   = RegisteredSet(media_players) \cup {e}
             /\ RegisteredSet(delete_media_player(media_players, e))
                   = RegisteredSet(media_players) \ {e}
             /\ e \in RegisteredSet(media_players) =>
                   add_media_player(media_players, e) = media_players
             /\ e \notin RegisteredSet(media_players) =>
                   delete_media_player(media_players, e) = media_players)

\* a player was unregistered while a request was pending with its timer armed
C29_Witness ==
    /\ Len(media_players) = 2
    /\ call_later_cancel
    /\ speakers_to_add # <<>>
    /\ timers = 1

\* C30: when the probe returns the check ends: the device is not checking any
\* more and not reconnecting, no loop was started, no entity and not the
\* coordinator were notified, nothing was sent to the speaker, and nothing
\* stands in the way of the next check.
C30_ProbeReturns ==
    /\ [][sent'.kind = "alive" =>
             /\ ~checking_connection'
             /\ ~reconnecting /\ ~reconnecting'
             /\ Loops = {} /\ Loops' = {}
             /\ Len(checks') = Len(checks) - 1
             /\ sent'.hass = 0
             /\ \A c \in Callbacks : sent'.forced[c] = 0 /\ sent'.called[c] = 0
             /\ ~sent'.connect /\ ~sent'.probe
             /\ UNCHANGED <<update_callbacks, speaker_connected, last_seen,
                            unloaded>>]_vars
    /\ [](sent.kind = "alive" => ~checking_connection /\ checks = <<>>)

\* the probe of a check returned and the device is connected and at rest
C30_Witness ==
    /\ sent.kind = "alive"
    /\ speaker_connected
    /\ ~checking_connection
    /\ ~reconnecting
    /\ checks = <<>>

\* ---------------------------------------------------------------- C31..C40
\* C31: the device enters Reconnecting from a check only when the probe
\* failed with a ConnectionError; a probe that fails with a timeout or with an
\* unexpected error starts no reconnection loop, so that disconnect() is not
\* called on a connection that is alive.
C31_OnlyConnectionErrorReconnects ==
    /\ [][(~reconnecting /\ reconnecting') =>
             sent'.probe_exc = "ConnectionError"]_vars
    /\ [][sent'.probe_exc \in {"ApiCallTimeoutError", "Exception"} =>
             Loops' = Loops]_vars

\* C32: a report of the speaker calls the subscribed callbacks of the device
\* first; when it carries one of the grouping attributes it then calls
\* update_hass_states of the coordinator once, which writes the state of
\* every registered player that is available and of no other; a report
\* without grouping attribute calls the callbacks only.
C32_GroupingReportUpdatesAll ==
    /\ [][sent'.kind = "delta" =>
             /\ sent'.called =
                   [c \in Callbacks |-> IF c \in update_callbacks THEN 1 ELSE 0]
             /\ IF sent'.delta \cap {"is_grouped", "is_master", "is_slave",
                                     "group_name", "master_ip", "master_mac"} # {}
                THEN sent'.hass = 1 /\ sent'.order = <<"callbacks", "hass">>
                ELSE sent'.hass = 0 /\ sent'.order = <<"callbacks">>]_vars
    /\ [](update_hass_states(media_players) =
             {e \in Players : Registered(e) /\ is_connected[e]})

\* the speaker reported a change of its master while one entity was
\* subscribed and one of the registered players was offline
C32_Witness ==
    /\ sent.kind = "delta"
    /\ "master_ip" \in sent.delta
    /\ sent.hass = 1
    /\ update_callbacks = {1}
    /\ \E e \in Players : Registered(e) /\ ~is_connected[e]

\* a request is pending for a master: the timer is armed and the commit has
\* not started
PendingFor(m) ==
    /\ grouping_master = m
    /\ call_later_cancel
    /\ ~in_progress

\* C33: while a request is pending for a master, every request that names
\* another registered master, for registered players, fails with
\* WamGroupError and is not accepted.
C33_OtherMasterRefusedWithGroupError ==
    \A m \in Players :
        PendingFor(m) =>
            \A m2 \in Range(media_players) \ {m} :
                /\ \A ids \in SeqsUpTo(Range(media_players), MaxMembers) :
                      /\ ~add_accepted(m2, ids)
                      /\ add_raises(m2, ids) = "WamGroupError"
                /\ \A id \in Range(media_players) :
                      /\ ~remove_accepted(m2, id)
                      /\ remove_raises(m2, id) = "WamGroupError"

\* C34: in every physical group() call the master is neither one of the
\* slaves after nor one of the slaves before.
C34_MasterNotSlaveOfItsCall ==
    \A i \in 1..Len(commits) :
        commits[i].pc = "calling" =>
            /\ commits[i].master \notin commits[i].after
            /\ commits[i].master \notin Range(commits[i].before)

\* the registered players that are available
Available == Range(get_all_available_media_players)

\* C35: a master and every slave that reports the address of that master, all
\* of them registered and available, resolve to the same list of group
\* members, in the same order: the master first, then its slaves in the order
\* of their registration.
C35_SameListForAllMembers ==
    \A m \in Available, sl \in Available :
        (is_master[m] /\ is_slave[sl] /\ master_ip[sl] = Ip(m)) =>
            /\ group_members(sl) = group_members(m)
            /\ group_members(m)[1] = m
            /\ Tail(group_members(m)) =
                  SelectSeq(get_all_available_media_players,
                            LAMBDA e : e # m /\ master_ip[e] = Ip(m))

\* the last registered player is the master of the two registered before it
C35_Witness ==
    /\ media_players = <<1, 2, 3>>
    /\ is_master[3]
    /\ is_slave[1] /\ master_ip[1] = Ip(3)
    /\ is_slave[2] /\ master_ip[2] = Ip(3)
    /\ Available = {1, 2, 3}
    /\ group_members(1) = <<3, 1, 2>>

\* C36: the slaves after of every physical group() call on a master contain
\* every player that reports it as its master when the timer fires and
\* that nobody asked to remove, also when that slave is offline or is not
\* registered.
C36_CommitKeepsSlaves ==
    [][(~in_progress /\ in_progress'
        /\ is_master[grouping_master]
        /\ commits'[Len(commits')].pc = "calling") =>
          \A sl \in Players :
             (/\ is_slave[sl]
              /\ master_ip[sl] = Ip(grouping_master)
              /\ sl \notin Range(speakers_to_remove)) =>
                 sl \in commits'[Len(commits')].after]_vars

\* C37: every attempt of the reconnection loop made while the connection is
\* down calls connect(): the disconnect() of the attempt is followed by
\* connect() whether it returned or raised.
C37_EveryAttemptConnects ==
    [][(/\ ~unloaded
        /\ ~speaker_connected
        /\ \E i \in 1..Len(checks) :
              /\ checks[i].pc = "disconnecting"
              /\ (Len(checks') < i \/ checks'[i].pc # "disconnecting")) =>
          sent'.connect]_vars

\* C38: while the device is reconnecting no probe is sent: a tick or a failed
\* command returns without probing and changes nothing; _checking_connection
\* stays set for as long as the device is reconnecting, and the step that
\* ends the reconnection clears it.
C38_NoProbeWhileReconnecting ==
    /\ [](reconnecting => checking_connection)
    /\ [][reconnecting => ~sent'.probe]_vars
    /\ [][(reconnecting /\ sent'.by # "none") =>
             /\ sent'.kind \in {"ignored", "skipped", "logged"}
             /\ DeviceAtRest]_vars
    /\ [][(reconnecting /\ ~reconnecting') =>
             /\ sent'.kind = "restored"
             /\ ~checking_connection']_vars

\* a command failed with a ConnectionError while the loop was sleeping after
\* a failed attempt, and was ignored
C38_Witness ==
    /\ reconnecting
    /\ sent.by = "ConnectionError"
    /\ sent.kind = "ignored"
    /\ \E i \in 1..Len(checks) :
          checks[i].pc = "sleeping" /\ checks[i].reconnection_attempts >= 1

\* C39: the fields of the pending operation are consistent in every state: a
\* master is stored exactly when a timer handle is stored, the lists to add
\* and to remove are empty when no master is stored, a commit is in progress
\* only while a master is stored; and a request that is not accepted leaves
\* all of them as they were.
C39_PendingConsistent ==
    /\ []((grouping_master # NoPlayer) <=> call_later_cancel)
    /\ [](grouping_master = NoPlayer =>
             speakers_to_add = <<>> /\ speakers_to_remove = <<>>)
    /\ [](in_progress => grouping_master # NoPlayer)
    /\ [][(grouping_master = NoPlayer /\ grouping_master' # NoPlayer) =>
             /\ call_later_cancel'
             /\ timers' = timers + 1
             /\ \/ \E ids \in MemberLists :
                      /\ add_accepted(grouping_master', ids)
                      /\ speakers_to_add' = ids
                      /\ speakers_to_remove' = <<>>
                \/ \E id \in Players :
                      /\ remove_accepted(grouping_master', id)
                      /\ speakers_to_remove' = <<id>>
                      /\ speakers_to_add' = <<>>]_vars

\* an episode is over, nothing is pending, and a request can arrive whose
\* master is valid and whose members are not
C39_Witness ==
    /\ Cleared
    /\ timers = 0
    /\ n_req = 1
    /\ \E m \in Players, ids \in MemberLists :
          /\ validate_master(m) = "none"
          /\ validate_media_players_to_add(m, ids) = "WamGroupError"

=============================================================================
